---- MODULE Spec2Model ----
(***************************************************************************)
(* Model of src/queue.c: a process-wide blocking FIFO queue guarded by one *)
(* mutex, with a second linked list (cvQueue) of per-waiter condition      *)
(* variables.  Both linked lists are modelled at pointer level (head,     *)
(* tail, next), every critical section is split at the point where the    *)
(* list has been relinked but the counters have not yet been updated.     *)
(***************************************************************************)
EXTENDS Integers, Sequences, FiniteSets, TLC

(* ------------------------------ bounds --------------------------------- *)
\* number of threads that call the queue
NThreads == 3
\* total number of enqueue/dequeue/tryDequeue calls issued in a run
MaxCalls == 3
\* number of spurious returns of cnd_wait in a run
MaxSpurious == 1
\* number of destroyQueue/initQueue cycles in a run
MaxReinit == 1

(* ------------------------- program constants --------------------------- *)
\* the null pointer (stddef.h)
NULL == 0
\* width of size_t: the counters wrap modulo 2^SIZE_BITS.  16 is the least
\* width the C standard allows for size_t; the wrap itself, not the width,
\* is what the model needs.
SIZE_BITS == 16
SizeMod == 2 ^ SIZE_BITS

Threads == 1 .. NThreads
\* payloads: the k-th enqueue call of a run passes item k (distinct items)
Items == 1 .. MaxCalls
\* addresses malloc can return for a Node, a CvNode, a cnd_t
NodeIds == 1 .. MaxCalls
CvNodeIds == 1 .. MaxCalls
CndIds == 1 .. MaxCalls

\* result slot of a dequeue that has not returned yet: no payload and not NULL
Pending == MaxCalls + 1

VARIABLES
  \* struct Queue (src/queue.c:13-20) and the Node heap (8-11)
  head, tail, item_count, wait_count, visited_count, mtx, node,
  \* struct CvQueue (27-30), the CvNode heap (22-25) and the cnd_t objects
  cvQueue_head, cvQueue_tail, cvnode, cnd,
  \* per thread: program counter and the locals of the call in progress
  pc, item, queue_was_empty, self_cv, local_node, local_item,
  \* the platform and the process
  build, qstate, crashed,
  \* budgets of the run
  calls, spurious, reinits, started,
  \* history (ghost) variables, reset by initQueue
  nextItem, appended, removed, returned, regs, fairOK, nullReads,
  enqCompleted, enqBefore, enqCalls, deqCalls, tryCalls, epochFirst,
  freedByDestroy, sigLog, lastRead

queueVars == <<head, tail, item_count, wait_count, visited_count, node>>
cvVars == <<cvQueue_head, cvQueue_tail, cvnode, cnd>>
localVars == <<item, queue_was_empty, self_cv, local_node, local_item>>
envVars == <<build, qstate, crashed, reinits>>
budgetVars == <<calls, spurious, started>>
histVars == <<nextItem, appended, removed, returned, regs, fairOK, nullReads,
              enqCompleted, enqBefore, enqCalls, deqCalls, tryCalls,
              epochFirst, freedByDestroy, sigLog, lastRead>>
vars == <<queueVars, mtx, cvVars, pc, localVars, envVars, budgetVars,
          histVars>>

(* ------------------------------ the heap ------------------------------- *)
FreeNode == [data |-> NULL, next |-> NULL, live |-> FALSE]
FreeCvNode == [cv |-> NULL, next |-> NULL, live |-> FALSE]

\* malloc(sizeof(Node)): the lowest address not in use
MallocNode(nd) == CHOOSE n \in NodeIds :
                    /\ ~nd[n].live
                    /\ \A m \in NodeIds : m < n => nd[m].live
MallocCvNode(cn) == CHOOSE n \in CvNodeIds :
                      /\ ~cn[n].live
                      /\ \A m \in CvNodeIds : m < n => cn[m].live
\* malloc(sizeof(cnd_t)); a cnd_t is "free", "init" or "destroyed"
\* (destroyed by cnd_destroy but its memory still allocated)
MallocCnd(c) == CHOOSE n \in CndIds :
                  /\ c[n] = "free"
                  /\ \A m \in CndIds : m < n => c[m] # "free"

\* free(p); free(NULL) does nothing
Free(nd, p) == IF p = NULL THEN nd ELSE [nd EXCEPT ![p] = FreeNode]

\* size_t arithmetic
Inc(x) == (x + 1) % SizeMod
Dec(x) == (x - 1) % SizeMod

(* --------------------------- pure helpers ------------------------------ *)
isCvQueueEmpty == cvQueue_head = NULL
isQueueEmpty == head = NULL

\* the nodes reachable from h along next, in order
RECURSIVE Chain(_, _, _)
Chain(nd, h, fuel) ==
  IF h = NULL \/ fuel = 0 THEN <<>>
  ELSE <<h>> \o Chain(nd, nd[h].next, fuel - 1)

ItemList == Chain(node, head, MaxCalls)
WaiterList == Chain(cvnode, cvQueue_head, MaxCalls)

\* cnd_signal(c): wakes the thread blocked in cnd_wait on c, if there is one
cnd_signal(p, c) ==
  [u \in Threads |->
     IF p[u] = "deq_wait" /\ self_cv[u] = c THEN "deq_woken" ELSE p[u]]

\* the record of a call cnd_signal(c) made by operation op for item it:
\* woke is the thread the call wakes, NULL when nobody is blocked on c
Signalled(lg, p, op, it, c) ==
  Append(lg, [by |-> op, item |-> it, cv |-> c,
              woke |-> IF \E u \in Threads : p[u] = "deq_wait" /\ self_cv[u] = c
                       THEN CHOOSE u \in Threads :
                              p[u] = "deq_wait" /\ self_cv[u] = c
                       ELSE NULL])

\* what an accessor has not returned yet
NoRead == [thr |-> NULL, op |-> "none", val |-> 0]

Running == qstate = "live" /\ ~crashed

\* Threads are interchangeable; they are started in the order 1, 2, ...: a
\* thread makes its first call only when every lower-numbered thread has made
\* one.  started is the number of threads that have made a call.
MayCall(t) == Running /\ pc[t] = "idle" /\ calls < MaxCalls /\ t <= started + 1
Started(t) == IF t = started + 1 THEN t ELSE started

Range(s) == {s[i] : i \in DOMAIN s}

(* ------------------------------ Init ----------------------------------- *)
\* the state initQueue leaves in a fresh process
FreshQueue ==
  /\ head = NULL /\ tail = NULL
  /\ item_count = 0 /\ wait_count = 0 /\ visited_count = 0
  /\ mtx = NULL
  /\ cvQueue_head = NULL /\ cvQueue_tail = NULL

Init ==
  /\ FreshQueue
  /\ node = [n \in NodeIds |-> FreeNode]
  /\ cvnode = [n \in CvNodeIds |-> FreeCvNode]
  /\ cnd = [n \in CndIds |-> "free"]
  /\ pc = [t \in Threads |-> "idle"]
  /\ item = [t \in Threads |-> NULL]
  /\ queue_was_empty = [t \in Threads |-> FALSE]
  /\ self_cv = [t \in Threads |-> NULL]
  /\ local_node = [t \in Threads |-> NULL]
  /\ local_item = [t \in Threads |-> NULL]
  /\ build \in {"trap", "zeropage"}
  /\ qstate = "live"
  /\ crashed = FALSE
  /\ calls = 0 /\ spurious = 0 /\ reinits = 0 /\ started = 0
  /\ nextItem = 1
  /\ appended = <<>> /\ removed = <<>> /\ returned = <<>> /\ regs = <<>>
  /\ fairOK = TRUE
  /\ nullReads = 0
  /\ enqCompleted = {}
  /\ enqBefore = [i \in Items |-> {}]
  /\ enqCalls = 0 /\ deqCalls = 0 /\ tryCalls = 0
  /\ epochFirst = 1
  /\ freedByDestroy = 0
  /\ sigLog = <<>>
  /\ lastRead = NoRead

(* --------------------- initQueue / destroyQueue ------------------------ *)
\* destroyQueue (55-82), called by the owner when no thread is inside an
\* operation: frees the queued nodes and the queued waiter handles, resets
\* the Queue fields; cvQueue.head and cvQueue.tail are left as they are.
DestroyQueue ==
  /\ Running /\ reinits < MaxReinit
  /\ \A t \in Threads : pc[t] = "idle"
  /\ node' = [n \in NodeIds |->
                IF n \in Range(ItemList) THEN FreeNode ELSE node[n]]
  /\ cvnode' = [n \in CvNodeIds |->
                  IF n \in Range(WaiterList) THEN FreeCvNode ELSE cvnode[n]]
  /\ cnd' = [c \in CndIds |->
               IF \E n \in Range(WaiterList) : cvnode[n].cv = c
               THEN "free" ELSE cnd[c]]
  /\ head' = NULL /\ tail' = NULL
  /\ item_count' = 0 /\ wait_count' = 0 /\ visited_count' = 0
  /\ qstate' = "destroyed"
  /\ freedByDestroy' = Len(ItemList)
  /\ UNCHANGED <<mtx, cvQueue_head, cvQueue_tail, pc, localVars, build,
                 crashed, reinits, budgetVars, nextItem, appended, removed,
                 returned, regs, fairOK, nullReads, enqCompleted, enqBefore,
                 enqCalls, deqCalls, tryCalls, epochFirst, sigLog, lastRead>>

\* an initQueue that forgets the list of condition variables (lines 48-49)
InitQueue_KeepsCvQueue ==
  /\ qstate = "destroyed" /\ ~crashed
  /\ head' = NULL /\ tail' = NULL
  /\ item_count' = 0 /\ wait_count' = 0 /\ visited_count' = 0
  /\ mtx' = NULL
  /\ UNCHANGED <<cvQueue_head, cvQueue_tail>>
  /\ qstate' = "live"
  /\ reinits' = reinits + 1
  /\ appended' = <<>> /\ removed' = <<>> /\ returned' = <<>> /\ regs' = <<>>
  /\ fairOK' = TRUE
  /\ enqCompleted' = {}
  /\ enqCalls' = 0 /\ deqCalls' = 0 /\ tryCalls' = 0
  /\ nullReads' = 0
  /\ epochFirst' = nextItem
  /\ sigLog' = <<>>
  /\ UNCHANGED <<node, cvnode, cnd, pc, localVars, build, crashed,
                 budgetVars, nextItem, enqBefore, freedByDestroy,
                 lastRead>>

\* initQueue (38-50)
InitQueue ==
  /\ qstate = "destroyed" /\ ~crashed
  /\ head' = NULL /\ tail' = NULL
  /\ item_count' = 0 /\ wait_count' = 0 /\ visited_count' = 0
  /\ mtx' = NULL
  /\ cvQueue_head' = NULL /\ cvQueue_tail' = NULL
  /\ qstate' = "live"
  /\ reinits' = reinits + 1
  /\ appended' = <<>> /\ removed' = <<>> /\ returned' = <<>> /\ regs' = <<>>
  /\ fairOK' = TRUE
  /\ enqCompleted' = {}
  /\ enqCalls' = 0 /\ deqCalls' = 0 /\ tryCalls' = 0
  /\ nullReads' = 0
  /\ epochFirst' = nextItem
  /\ sigLog' = <<>>
  /\ UNCHANGED <<node, cvnode, cnd, pc, localVars, build, crashed,
                 budgetVars, nextItem, enqBefore, freedByDestroy, lastRead>>

(* ------------------------------ mtx_lock ------------------------------- *)
\* mtx_lock (105, 141, 213) and the reacquisition of the mutex inside
\* cnd_wait (176): the thread goes on only when no thread holds the mutex.
\* Taking the mutex is one step with the first part of the critical section.
mtx_lock(t) == mtx = NULL /\ mtx' = t

(* ------------------------------ enqueue -------------------------------- *)
\* a thread calls enqueue(item) with the next unused item
CallEnqueue(t) ==
  /\ MayCall(t)
  /\ started' = Started(t)
  /\ pc' = [pc EXCEPT ![t] = "enq_lock"]
  /\ item' = [item EXCEPT ![t] = nextItem]
  /\ nextItem' = nextItem + 1
  /\ calls' = calls + 1
  /\ enqBefore' = [enqBefore EXCEPT ![nextItem] = enqCompleted]
  /\ enqCalls' = enqCalls + 1
  /\ fairOK' = (fairOK /\ \A u \in Threads :
                             pc[u] \notin {"deq_lock", "deq_reg"})
  /\ UNCHANGED <<queueVars, mtx, cvVars, queue_was_empty, self_cv,
                 local_node, local_item, envVars, spurious, appended,
                 removed, returned, regs, nullReads, enqCompleted, deqCalls,
                 tryCalls, epochFirst, freedByDestroy, sigLog, lastRead>>

\* a list that grows at the wrong end: the new node becomes the head
AppendItem_Front(h, tl, nd, n, it) ==
  LET nd1 == [nd EXCEPT ![n] = [data |-> it, next |-> h, live |-> TRUE]]
  IN  IF h = NULL
      THEN [head |-> n, tail |-> n, node |-> nd1]
      ELSE [head |-> n, tail |-> tl, node |-> nd1]

\* lines 113-123: the new node n holding it becomes the tail of the list
AppendItem(h, tl, nd, n, it) ==
  LET nd1 == [nd EXCEPT ![n] = [data |-> it, next |-> NULL, live |-> TRUE]]
  IN  IF h = NULL
      THEN [head |-> n, tail |-> n, node |-> nd1]
      ELSE [head |-> h, tail |-> n, node |-> [nd1 EXCEPT ![tl].next = n]]

\* lines 107-123.  With head non-null and tail null, line 121 writes
\* tail->next through NULL: the write faults in both builds (the zero page
\* is mapped read-only) and the process is killed.
EnqueueLink(t) ==
  /\ Running /\ pc[t] = "enq_lock"
  /\ mtx_lock(t)
  /\ IF head # NULL /\ tail = NULL
     THEN /\ crashed' = TRUE
          /\ UNCHANGED <<head, tail, node, queue_was_empty, pc, appended>>
     ELSE /\ LET r == AppendItem(head, tail, node, MallocNode(node), item[t])
             IN  /\ head' = r.head
                 /\ tail' = r.tail
                 /\ node' = r.node
          /\ queue_was_empty' = [queue_was_empty EXCEPT ![t] = isQueueEmpty]
          /\ pc' = [pc EXCEPT ![t] = "enq_count"]
          /\ appended' = Append(appended, item[t])
          /\ UNCHANGED crashed
  /\ UNCHANGED <<item_count, wait_count, visited_count, cvVars, item,
                 self_cv, local_node, local_item, build, qstate, reinits,
                 budgetVars, nextItem, removed, returned, regs, fairOK,
                 nullReads, enqCompleted, enqBefore, enqCalls, deqCalls,
                 tryCalls, epochFirst, freedByDestroy, sigLog, lastRead>>

\* line 129: does this enqueue signal the head waiter
EnqueueSignals(wc, was_empty) == wc > 0 /\ was_empty

\* a bookkeeping slip: the visit is not counted
CountEnqueue_NoVisit(ic, vc) == [item_count |-> Inc(ic), visited_count |-> vc]

\* lines 125-126: the two counters after an enqueue
CountEnqueue(ic, vc) == [item_count |-> Inc(ic), visited_count |-> Inc(vc)]

\* lines 125-133
EnqueueFinish(t) ==
  /\ Running /\ pc[t] = "enq_count"
  /\ item_count' = CountEnqueue(item_count, visited_count).item_count
  /\ visited_count' = CountEnqueue(item_count, visited_count).visited_count
  /\ LET p == [pc EXCEPT ![t] = "idle"]
     IN  IF EnqueueSignals(wait_count, queue_was_empty[t])
            /\ cvQueue_head # NULL
         THEN /\ pc' = cnd_signal(p, cvnode[cvQueue_head].cv)
              /\ sigLog' = Signalled(sigLog, pc, "enqueue", item[t],
                                     cvnode[cvQueue_head].cv)
         ELSE /\ pc' = p
              /\ UNCHANGED sigLog
  /\ mtx' = NULL
  /\ item' = [item EXCEPT ![t] = NULL]
  /\ queue_was_empty' = [queue_was_empty EXCEPT ![t] = FALSE]
  /\ enqCompleted' = enqCompleted \cup {item[t]}
  /\ UNCHANGED <<head, tail, wait_count, node, cvVars, self_cv, local_node,
                 local_item, envVars, budgetVars, nextItem, appended,
                 removed, returned, regs, fairOK, nullReads, enqBefore,
                 enqCalls, deqCalls, tryCalls, epochFirst, freedByDestroy,
                 lastRead>>

(* ------------------------- reading a null pointer ---------------------- *)
\* node->data and node->next with node == NULL (lines 146-147, 181-182,
\* 222-223) are undefined behaviour.  Two builds are modelled: "trap", where
\* the read faults and the process is killed, and "zeropage", where address 0
\* is mapped and reads as zero, so that data and next both read as NULL.

(* ------------------------------ dequeue -------------------------------- *)
CallDequeue(t) ==
  /\ MayCall(t)
  /\ started' = Started(t)
  /\ pc' = [pc EXCEPT ![t] = "deq_lock"]
  /\ calls' = calls + 1
  /\ deqCalls' = deqCalls + 1
  /\ fairOK' = (fairOK /\ enqCalls = 0)
  /\ UNCHANGED <<queueVars, mtx, cvVars, localVars, envVars, spurious,
                 nextItem, appended, removed, returned, regs, nullReads,
                 enqCompleted, enqBefore, enqCalls, tryCalls, epochFirst,
                 freedByDestroy, sigLog, lastRead>>

\* line 143: the condition under which dequeue takes an item without waiting
DequeueTakesNow == isCvQueueEmpty /\ ~isQueueEmpty

\* lines 145-147: unlink the head node
DequeueFast(t) ==
  /\ Running /\ pc[t] = "deq_lock"
  /\ mtx_lock(t)
  /\ DequeueTakesNow
  /\ local_node' = [local_node EXCEPT ![t] = head]
  /\ local_item' = [local_item EXCEPT ![t] = node[head].data]
  /\ head' = node[head].next
  /\ pc' = [pc EXCEPT ![t] = "deq_fast"]
  /\ removed' = Append(removed, node[head].data)
  /\ fairOK' = FALSE
  /\ UNCHANGED <<tail, item_count, wait_count, visited_count, node, cvVars,
                 item, queue_was_empty, self_cv, envVars, budgetVars,
                 nextItem, appended, returned, regs, nullReads, enqCompleted,
                 enqBefore, enqCalls, deqCalls, tryCalls, epochFirst,
                 freedByDestroy, sigLog, lastRead>>

\* lines 148-157
DequeueFastFinish(t) ==
  /\ Running /\ pc[t] = "deq_fast"
  /\ item_count' = Dec(item_count)
  /\ tail' = IF item_count' = 0 THEN NULL ELSE tail
  /\ node' = Free(node, local_node[t])
  /\ mtx' = NULL
  /\ pc' = [pc EXCEPT ![t] = "idle"]
  /\ returned' = Append(returned, [thr |-> t, op |-> "dequeue", ok |-> TRUE,
                                   val |-> local_item[t]])
  /\ local_node' = [local_node EXCEPT ![t] = NULL]
  /\ local_item' = [local_item EXCEPT ![t] = NULL]
  /\ UNCHANGED <<head, wait_count, visited_count, cvVars, item,
                 queue_was_empty, self_cv, envVars, budgetVars, nextItem,
                 appended, removed, regs, fairOK, nullReads, enqCompleted,
                 enqBefore, enqCalls, deqCalls, tryCalls, epochFirst,
                 freedByDestroy, sigLog, lastRead>>

\* lines 163-173: the new handle n holding c becomes the tail of cvQueue
AppendWaiter(h, tl, cn, n, c) ==
  LET cn1 == [cn EXCEPT ![n] = [cv |-> c, next |-> NULL, live |-> TRUE]]
  IN  IF h = NULL
      THEN [head |-> n, tail |-> n, cvnode |-> cn1]
      ELSE [head |-> h, tail |-> n, cvnode |-> [cn1 EXCEPT ![tl].next = n]]

\* lines 158-173: allocate a condition variable and queue a handle for it
DequeueRegister(t) ==
  /\ Running /\ pc[t] = "deq_lock"
  /\ mtx_lock(t)
  /\ ~DequeueTakesNow
  /\ LET c == MallocCnd(cnd)
         r == AppendWaiter(cvQueue_head, cvQueue_tail, cvnode,
                           MallocCvNode(cvnode), c)
     IN  /\ cnd' = [cnd EXCEPT ![c] = "init"]
         /\ self_cv' = [self_cv EXCEPT ![t] = c]
         /\ cvQueue_head' = r.head
         /\ cvQueue_tail' = r.tail
         /\ cvnode' = r.cvnode
  /\ pc' = [pc EXCEPT ![t] = "deq_reg"]
  /\ regs' = Append(regs, [thr |-> t, got |-> Pending])
  /\ fairOK' = (fairOK /\ isQueueEmpty)
  /\ UNCHANGED <<queueVars, item, queue_was_empty, local_node, local_item,
                 envVars, budgetVars, nextItem, appended, removed, returned,
                 nullReads, enqCompleted, enqBefore, enqCalls, deqCalls,
                 tryCalls, epochFirst, freedByDestroy, sigLog, lastRead>>

\* a consumer that blocks without counting itself as a waiter
DequeueWait_NoCount(t) ==
  /\ Running /\ pc[t] = "deq_reg"
  /\ mtx' = NULL
  /\ pc' = [pc EXCEPT ![t] = "deq_wait"]
  /\ UNCHANGED <<queueVars, cvVars, localVars, envVars, budgetVars,
                 histVars>>

\* lines 175-176: count the waiter; cnd_wait releases the mutex and blocks
DequeueWait(t) ==
  /\ Running /\ pc[t] = "deq_reg"
  /\ wait_count' = Inc(wait_count)
  /\ mtx' = NULL
  /\ pc' = [pc EXCEPT ![t] = "deq_wait"]
  /\ UNCHANGED <<head, tail, item_count, visited_count, node, cvVars,
                 localVars, envVars, budgetVars, histVars>>

\* cnd_wait (176) may return without a signal
SpuriousWakeup(t) ==
  /\ Running /\ pc[t] = "deq_wait" /\ spurious < MaxSpurious
  /\ pc' = [pc EXCEPT ![t] = "deq_woken"]
  /\ spurious' = spurious + 1
  /\ fairOK' = FALSE
  /\ UNCHANGED <<queueVars, mtx, cvVars, localVars, envVars, calls, started,
                 nextItem, appended, removed, returned, regs, nullReads,
                 enqCompleted, enqBefore, enqCalls, deqCalls, tryCalls,
                 epochFirst, freedByDestroy, sigLog, lastRead>>

\* lines 180-182, head non-null: unlink the head node
DequeueResume(t) ==
  /\ Running /\ pc[t] = "deq_woken"
  /\ mtx_lock(t)
  /\ head # NULL
  /\ local_node' = [local_node EXCEPT ![t] = head]
  /\ local_item' = [local_item EXCEPT ![t] = node[head].data]
  /\ head' = node[head].next
  /\ pc' = [pc EXCEPT ![t] = "deq_pop"]
  /\ removed' = Append(removed, node[head].data)
  /\ UNCHANGED <<tail, item_count, wait_count, visited_count, node, cvVars,
                 item, queue_was_empty, self_cv, envVars, budgetVars,
                 nextItem, appended, returned, regs, fairOK, nullReads,
                 enqCompleted, enqBefore, enqCalls, deqCalls, tryCalls,
                 epochFirst, freedByDestroy, sigLog, lastRead>>

\* lines 180-182, head null: node->data and node->next read through NULL
DequeueResumeNull(t) ==
  /\ Running /\ pc[t] = "deq_woken"
  /\ mtx_lock(t)
  /\ head = NULL
  /\ nullReads' = nullReads + 1
  /\ IF build = "trap"
     THEN /\ crashed' = TRUE
          /\ UNCHANGED <<pc, local_node, local_item, head>>
     ELSE /\ local_node' = [local_node EXCEPT ![t] = NULL]
          /\ local_item' = [local_item EXCEPT ![t] = NULL]
          /\ head' = NULL
          /\ pc' = [pc EXCEPT ![t] = "deq_pop"]
          /\ UNCHANGED crashed
  /\ UNCHANGED <<tail, item_count, wait_count, visited_count, node, cvVars,
                 item, queue_was_empty, self_cv, build, qstate, reinits,
                 budgetVars, nextItem, appended, removed, returned, regs,
                 fairOK, enqCompleted, enqBefore, enqCalls, deqCalls,
                 tryCalls, epochFirst, freedByDestroy, sigLog, lastRead>>

\* cnd_destroy(c) while a thread is still blocked in cnd_wait(c) is undefined
\* behaviour.  Two outcomes are modelled: the call returns and the waiter
\* stays blocked on the dead condition variable (DequeueResumeFinish), or
\* the call waits for the waiter to leave and never returns
\* (DequeueResumeHang).
CndBusy(c) == \E u \in Threads : pc[u] = "deq_wait" /\ self_cv[u] = c

\* the entry of regs that thread t's dequeue in progress made
SetGot(rg, t, v) ==
  LET i == CHOOSE i \in DOMAIN rg : rg[i].thr = t /\ rg[i].got = Pending
  IN  [rg EXCEPT ![i].got = v]

\* lines 183-204
DequeueResumeFinish(t) ==
  /\ Running /\ pc[t] = "deq_pop"
  /\ item_count' = Dec(item_count)
  /\ tail' = IF item_count' = 0 THEN NULL ELSE tail
  /\ LET cv_node == cvQueue_head
         cv == cvnode[cv_node].cv
         p == [pc EXCEPT ![t] = "idle"]
     IN  /\ cvQueue_head' = cvnode[cv_node].next
         /\ cnd' = [cnd EXCEPT ![cv] = "destroyed"]
         /\ wait_count' = Dec(wait_count)
         /\ IF wait_count' > 0 /\ cvQueue_head' # NULL
            THEN /\ pc' = cnd_signal(p, cvnode[cvQueue_head'].cv)
                 /\ sigLog' = Signalled(sigLog, pc, "dequeue", NULL,
                                        cvnode[cvQueue_head'].cv)
            ELSE /\ pc' = p
                 /\ UNCHANGED sigLog
         /\ cvnode' = [cvnode EXCEPT ![cv_node] = FreeCvNode]
  /\ node' = Free(node, local_node[t])
  /\ mtx' = NULL
  /\ returned' = Append(returned, [thr |-> t, op |-> "dequeue", ok |-> TRUE,
                                   val |-> local_item[t]])
  /\ regs' = SetGot(regs, t, local_item[t])
  /\ local_node' = [local_node EXCEPT ![t] = NULL]
  /\ local_item' = [local_item EXCEPT ![t] = NULL]
  /\ self_cv' = [self_cv EXCEPT ![t] = NULL]
  /\ UNCHANGED <<head, visited_count, cvQueue_tail, item, queue_was_empty,
                 envVars, budgetVars, nextItem, appended, removed, fairOK,
                 nullReads, enqCompleted, enqBefore, enqCalls, deqCalls,
                 tryCalls, epochFirst, freedByDestroy, lastRead>>

\* lines 183-193, cnd_destroy never returns
DequeueResumeHang(t) ==
  /\ Running /\ pc[t] = "deq_pop"
  /\ CndBusy(cvnode[cvQueue_head].cv)
  /\ item_count' = Dec(item_count)
  /\ tail' = IF item_count' = 0 THEN NULL ELSE tail
  /\ cvQueue_head' = cvnode[cvQueue_head].next
  /\ pc' = [pc EXCEPT ![t] = "hung"]
  /\ UNCHANGED <<head, wait_count, visited_count, node, mtx, cvQueue_tail,
                 cvnode, cnd, localVars, envVars, budgetVars, histVars>>

(* ----------------------------- tryDequeue ------------------------------ *)
CallTryDequeue(t) ==
  /\ MayCall(t)
  /\ started' = Started(t)
  /\ pc' = [pc EXCEPT ![t] = "try_lock"]
  /\ calls' = calls + 1
  /\ tryCalls' = tryCalls + 1
  /\ fairOK' = FALSE
  /\ UNCHANGED <<queueVars, mtx, cvVars, localVars, envVars, spurious,
                 nextItem, appended, removed, returned, regs, nullReads,
                 enqCompleted, enqBefore, enqCalls, deqCalls, epochFirst,
                 freedByDestroy, sigLog, lastRead>>

\* line 215: the condition under which tryDequeue reports "not found"
TryFindsNothing(ic) == ic = 0

\* a tryDequeue that, finding nothing, wakes the longest waiter
TryDequeueEmpty_Signals(t) ==
  /\ Running /\ pc[t] = "try_lock"
  /\ mtx = NULL
  /\ TryFindsNothing(item_count)
  /\ UNCHANGED mtx
  /\ pc' = IF cvQueue_head # NULL
           THEN cnd_signal([pc EXCEPT ![t] = "idle"], cvnode[cvQueue_head].cv)
           ELSE [pc EXCEPT ![t] = "idle"]
  /\ returned' = Append(returned, [thr |-> t, op |-> "tryDequeue",
                                   ok |-> FALSE, val |-> NULL])
  /\ UNCHANGED <<queueVars, cvVars, localVars, envVars, budgetVars, nextItem,
                 appended, removed, regs, fairOK, nullReads, enqCompleted,
                 enqBefore, enqCalls, deqCalls, tryCalls, epochFirst,
                 freedByDestroy, sigLog, lastRead>>

\* lines 215-218
TryDequeueEmpty(t) ==
  /\ Running /\ pc[t] = "try_lock"
  /\ mtx = NULL
  /\ TryFindsNothing(item_count)
  /\ UNCHANGED mtx
  /\ pc' = [pc EXCEPT ![t] = "idle"]
  /\ returned' = Append(returned, [thr |-> t, op |-> "tryDequeue",
                                   ok |-> FALSE, val |-> NULL])
  /\ UNCHANGED <<queueVars, cvVars, localVars, envVars, budgetVars, nextItem,
                 appended, removed, regs, fairOK, nullReads, enqCompleted,
                 enqBefore, enqCalls, deqCalls, tryCalls, epochFirst,
                 freedByDestroy, sigLog, lastRead>>

\* lines 221-223, head non-null
TryDequeuePop(t) ==
  /\ Running /\ pc[t] = "try_lock"
  /\ mtx_lock(t)
  /\ ~TryFindsNothing(item_count)
  /\ head # NULL
  /\ local_node' = [local_node EXCEPT ![t] = head]
  /\ local_item' = [local_item EXCEPT ![t] = node[head].data]
  /\ head' = node[head].next
  /\ pc' = [pc EXCEPT ![t] = "try_pop"]
  /\ removed' = Append(removed, node[head].data)
  /\ UNCHANGED <<tail, item_count, wait_count, visited_count, node, cvVars,
                 item, queue_was_empty, self_cv, envVars, budgetVars,
                 nextItem, appended, returned, regs, fairOK, nullReads,
                 enqCompleted, enqBefore, enqCalls, deqCalls, tryCalls,
                 epochFirst, freedByDestroy, sigLog, lastRead>>

\* lines 221-223, head null while item_count is not 0
TryDequeueNull(t) ==
  /\ Running /\ pc[t] = "try_lock"
  /\ mtx_lock(t)
  /\ ~TryFindsNothing(item_count)
  /\ head = NULL
  /\ nullReads' = nullReads + 1
  /\ IF build = "trap"
     THEN /\ crashed' = TRUE
          /\ UNCHANGED <<pc, local_node, local_item, head>>
     ELSE /\ local_node' = [local_node EXCEPT ![t] = NULL]
          /\ local_item' = [local_item EXCEPT ![t] = NULL]
          /\ head' = NULL
          /\ pc' = [pc EXCEPT ![t] = "try_pop"]
          /\ UNCHANGED crashed
  /\ UNCHANGED <<tail, item_count, wait_count, visited_count, node, cvVars,
                 item, queue_was_empty, self_cv, build, qstate, reinits,
                 budgetVars, nextItem, appended, removed, returned, regs,
                 fairOK, enqCompleted, enqBefore, enqCalls, deqCalls,
                 tryCalls, epochFirst, freedByDestroy, sigLog, lastRead>>

\* lines 224-233
TryDequeueFinish(t) ==
  /\ Running /\ pc[t] = "try_pop"
  /\ item_count' = Dec(item_count)
  /\ tail' = IF item_count' = 0 THEN NULL ELSE tail
  /\ node' = Free(node, local_node[t])
  /\ mtx' = NULL
  /\ pc' = [pc EXCEPT ![t] = "idle"]
  /\ returned' = Append(returned, [thr |-> t, op |-> "tryDequeue",
                                   ok |-> TRUE, val |-> local_item[t]])
  /\ local_node' = [local_node EXCEPT ![t] = NULL]
  /\ local_item' = [local_item EXCEPT ![t] = NULL]
  /\ UNCHANGED <<head, wait_count, visited_count, cvVars, item,
                 queue_was_empty, self_cv, envVars, budgetVars, nextItem,
                 appended, removed, regs, fairOK, nullReads, enqCompleted,
                 enqBefore, enqCalls, deqCalls, tryCalls, epochFirst,
                 freedByDestroy, sigLog, lastRead>>

(* ----------------------- size, waiting, visited ------------------------ *)
\* the accessors (240-258) return the field as it is when they are called;
\* they do not take the mutex, so they run whoever holds it
Size(t) ==
  /\ MayCall(t)
  /\ started' = Started(t)
  /\ calls' = calls + 1
  /\ lastRead' = [thr |-> t, op |-> "size", val |-> item_count]
  /\ UNCHANGED <<queueVars, mtx, cvVars, pc, localVars, envVars, spurious,
                 nextItem, appended, removed, returned, regs, fairOK,
                 nullReads, enqCompleted, enqBefore, enqCalls, deqCalls,
                 tryCalls, epochFirst, freedByDestroy, sigLog>>

Waiting(t) ==
  /\ MayCall(t)
  /\ started' = Started(t)
  /\ calls' = calls + 1
  /\ lastRead' = [thr |-> t, op |-> "waiting", val |-> wait_count]
  /\ UNCHANGED <<queueVars, mtx, cvVars, pc, localVars, envVars, spurious,
                 nextItem, appended, removed, returned, regs, fairOK,
                 nullReads, enqCompleted, enqBefore, enqCalls, deqCalls,
                 tryCalls, epochFirst, freedByDestroy, sigLog>>

Visited(t) ==
  /\ MayCall(t)
  /\ started' = Started(t)
  /\ calls' = calls + 1
  /\ lastRead' = [thr |-> t, op |-> "visited", val |-> visited_count]
  /\ UNCHANGED <<queueVars, mtx, cvVars, pc, localVars, envVars, spurious,
                 nextItem, appended, removed, returned, regs, fairOK,
                 nullReads, enqCompleted, enqBefore, enqCalls, deqCalls,
                 tryCalls, epochFirst, freedByDestroy, sigLog>>

(* --------------------------- specification ----------------------------- *)
Next ==
  \/ DestroyQueue
  \/ InitQueue
  \/ \E t \in Threads :
       \/ CallEnqueue(t) \/ EnqueueLink(t) \/ EnqueueFinish(t)
       \/ CallDequeue(t) \/ DequeueFast(t) \/ DequeueFastFinish(t)
       \/ DequeueRegister(t) \/ DequeueWait(t) \/ SpuriousWakeup(t)
       \/ DequeueResume(t) \/ DequeueResumeNull(t)
       \/ DequeueResumeFinish(t) \/ DequeueResumeHang(t)
       \/ CallTryDequeue(t) \/ TryDequeueEmpty(t) \/ TryDequeuePop(t)
       \/ TryDequeueNull(t) \/ TryDequeueFinish(t)
       \/ Size(t) \/ Waiting(t) \/ Visited(t)

Spec == Init /\ [][Next]_vars

TypeOK ==
  /\ head \in NodeIds \cup {NULL} /\ tail \in NodeIds \cup {NULL}
  /\ item_count \in 0 .. SizeMod - 1
  /\ wait_count \in 0 .. SizeMod - 1
  /\ visited_count \in 0 .. SizeMod - 1
  /\ mtx \in Threads \cup {NULL}
  /\ cvQueue_head \in CvNodeIds \cup {NULL}
  /\ cvQueue_tail \in CvNodeIds \cup {NULL}

(* ----------------- pointers the code dereferences unchecked ------------- *)
\* The model gives no meaning to the dereferences below going through a null
\* or freed pointer; they never do.
\* line 121, tail->next: when head is non-null and tail is non-null, tail is
\* a live node.  line 171, cvQueue.tail->next: likewise.  line 130 and 197,
\* cvQueue.head->cv: cvQueue.head is non-null when wait_count > 0 there.
\* line 190-191, cv_node->cv: cvQueue.head is non-null.
DerefsAreSafe ==
  /\ (head # NULL /\ tail # NULL) => node[tail].live
  /\ cvQueue_head # NULL /\ qstate = "live" =>
       cvQueue_tail # NULL /\ cvnode[cvQueue_tail].live
  /\ \A t \in Threads :
       /\ (pc[t] = "enq_count" /\ EnqueueSignals(wait_count,
                                                  queue_was_empty[t]))
            => cvQueue_head # NULL
       /\ pc[t] = "deq_pop" => cvQueue_head # NULL
       /\ (pc[t] = "deq_pop" /\ Dec(wait_count) > 0)
            => cvnode[cvQueue_head].next # NULL

(* ------------------------ shared definitions --------------------------- *)
\* no thread is inside an operation
Quiescent == \A t \in Threads : pc[t] = "idle"

\* the returns of dequeue calls, as indices of returned
DeqIdx == {i \in DOMAIN returned : returned[i].op = "dequeue"}

\* a step of thread t inside the call it is in (not a new call, not a
\* spurious wakeup)
Progress(t) ==
  \/ EnqueueLink(t) \/ EnqueueFinish(t)
  \/ DequeueFast(t) \/ DequeueFastFinish(t)
  \/ DequeueRegister(t) \/ DequeueWait(t)
  \/ DequeueResume(t) \/ DequeueResumeNull(t) \/ DequeueResumeFinish(t)
  \/ TryDequeueEmpty(t) \/ TryDequeuePop(t) \/ TryDequeueNull(t)
  \/ TryDequeueFinish(t)

\* every call in progress is stuck: it goes on only after a further call or
\* a spurious wakeup, if at all
Settled == \A t \in Threads : ~ENABLED Progress(t)

(* ------------------------------- claims -------------------------------- *)
\* C1: no loss, no duplication.  In a run of enqueue and dequeue calls only,
\* with as many dequeue calls as enqueue calls, no consumer reads the head of
\* an empty item list, every value a dequeue returns is an enqueued item,
\* no item is returned twice, and once every call has returned the items
\* returned are exactly the items enqueued.
C1_NoLossNoDuplication ==
  (deqCalls = enqCalls /\ tryCalls = 0) =>
    /\ nullReads = 0
    /\ \A i \in DeqIdx : returned[i].val \in Range(appended)
    /\ \A i, j \in DeqIdx : i # j => returned[i].val # returned[j].val
    /\ Quiescent => {returned[i].val : i \in DeqIdx} = Range(appended)

\* C2: FIFO item order.  The items removed so far (by dequeue or tryDequeue)
\* are, in order, the first items appended; and an item whose enqueue
\* completed before the enqueue of a removed item started was removed before
\* that item.
C2_FifoOrder ==
  /\ Len(removed) <= Len(appended)
  /\ \A i \in DOMAIN removed : removed[i] = appended[i]
  /\ \A i \in DOMAIN removed : \A a \in enqBefore[removed[i]] :
       \E j \in 1 .. (i - 1) : removed[j] = a

\* enqueue(A) completed before enqueue(B) started, B is appended and A has
\* been removed
C2_Witness ==
  /\ Len(appended) >= 2 /\ Len(removed) >= 1
  /\ removed[1] \in enqBefore[appended[2]]

\* C3: fair wakeup.  When the consumers registered as waiters on the empty
\* queue before any enqueue was called, and no tryDequeue and no spurious
\* wakeup takes part, the i-th registered consumer returns the i-th enqueued
\* item and no consumer reads the head of an empty item list.
C3_FairWakeup ==
  fairOK =>
    /\ nullReads = 0
    /\ \A i \in DOMAIN regs :
         regs[i].got # Pending =>
           i <= Len(appended) /\ regs[i].got = appended[i]

\* C4: liveness of dequeue.  In a run without tryDequeue and with at least
\* as many enqueue calls as dequeue calls, when no call in progress can take
\* a step, every dequeue call has returned, and returned an item.
C4_DequeueReturnsItem ==
  (Settled /\ qstate = "live" /\ enqCalls >= deqCalls /\ tryCalls = 0) =>
    /\ Cardinality(DeqIdx) = deqCalls
    /\ \A i \in DeqIdx : returned[i].val \in Range(appended)

\* C5: tryDequeue on an empty queue (item_count = 0 when it takes the mutex)
\* returns false and leaves both lists and the three counters as they are;
\* and no step of tryDequeue changes the waiter list or wait_count, moves
\* the caller to a waiting state, or wakes another thread.
C5_TryDequeueFrame ==
  [][\A t \in Threads :
       LET stepped == pc[t] \in {"try_lock", "try_pop"} /\ pc'[t] # pc[t]
       IN  /\ (stepped /\ pc[t] = "try_lock" /\ item_count = 0) =>
                /\ pc'[t] = "idle"
                /\ returned' = Append(returned,
                                      [thr |-> t, op |-> "tryDequeue",
                                       ok |-> FALSE, val |-> NULL])
                /\ UNCHANGED <<queueVars, cvVars>>
           /\ stepped =>
                /\ UNCHANGED <<cvVars, wait_count>>
                /\ pc'[t] \in {"idle", "try_pop"}
                /\ \A u \in Threads \ {t} : pc'[u] = pc[u]]_vars

\* a tryDequeue has just returned false while a consumer is blocked
C5_Witness ==
  /\ Len(returned) >= 1
  /\ returned[Len(returned)].op = "tryDequeue"
  /\ ~returned[Len(returned)].ok
  /\ wait_count > 0
  /\ \E u \in Threads : pc[u] = "deq_wait"

\* C6: size() accounting.  Whenever no thread holds the mutex, item_count
\* is the number of nodes in the item list and is the number of completed
\* enqueues minus the number of items removed (so it never wraps around).
C6_SizeAccounting ==
  (mtx = NULL /\ qstate = "live") =>
    /\ item_count = Len(ItemList)
    /\ item_count = Cardinality(enqCompleted) - Len(removed)

\* C7: visited() accounting.  visited_count is the number of enqueue calls
\* completed since initQueue; between initQueue and destroyQueue it never
\* decreases, it changes only in the step that completes an enqueue, by one,
\* and no step of dequeue or tryDequeue changes it.
C7_VisitedAccounting ==
  /\ [](qstate = "live" => visited_count = Cardinality(enqCompleted))
  /\ [][(qstate = "live" /\ qstate' = "live") =>
          /\ visited_count' >= visited_count
          /\ visited_count' # visited_count =>
               /\ visited_count' = visited_count + 1
               /\ \E t \in Threads : pc[t] = "enq_count" /\ pc'[t] = "idle"
          /\ \A t \in Threads :
               (pc[t] \in {"deq_lock", "deq_fast", "deq_reg", "deq_woken",
                           "deq_pop", "try_lock", "try_pop"}
                /\ pc'[t] # pc[t]) => visited_count' = visited_count]_vars

\* two enqueues have completed and an item has been removed
C7_Witness ==
  qstate = "live" /\ visited_count = 2 /\ Len(removed) >= 1

\* C8: teardown and re-init.  initQueue after destroyQueue leaves the three
\* counters 0, both lists empty, no node and no waiter handle allocated and
\* the mutex free, as in a fresh process; afterwards no value returned is an
\* item enqueued before the destroy and every queued node holds an item
\* enqueued after it.
C8_TeardownReinit ==
  /\ [][(qstate = "destroyed" /\ qstate' = "live") =>
          (/\ FreshQueue
           /\ ItemList = <<>> /\ WaiterList = <<>>
           /\ \A n \in NodeIds : ~node[n].live
           /\ \A n \in CvNodeIds : ~cvnode[n].live)']_vars
  /\ [](qstate = "live" =>
          /\ \A i \in DOMAIN returned :
               returned[i].val \notin 1 .. (epochFirst - 1)
          /\ \A i \in DOMAIN ItemList :
               node[ItemList[i]].data \notin 1 .. (epochFirst - 1))

\* after a destroyQueue that freed a queued item and an initQueue, an item
\* has been enqueued and removed
C8_Witness ==
  /\ reinits >= 1 /\ qstate = "live"
  /\ freedByDestroy >= 1
  /\ Len(removed) >= 1

\* C9: enqueue and tryDequeue never block.  A thread inside enqueue or
\* tryDequeue can take a step, or waits for the mutex while the thread that
\* holds it can take a step.
C9_EnqueueTryNeverBlock ==
  \A t \in Threads :
    pc[t] \in {"enq_lock", "enq_count", "try_lock", "try_pop"} =>
      \/ ENABLED Progress(t)
      \/ (mtx # NULL /\ mtx # t /\ ENABLED Progress(mtx))

\* C10: re-validation after wakeup.  A consumer that resumes from cnd_wait
\* unlinks a node only from a non-empty item list: it is never past the
\* unlinking with no node in hand, and the process is never killed while it
\* reads the head node.
C10_RevalidationAfterWakeup ==
  \A t \in Threads :
    /\ pc[t] = "deq_pop" => local_node[t] # NULL
    /\ ~(crashed /\ pc[t] = "deq_woken" /\ mtx = t)

\* C11: enqueue wakeup rule.  The step that completes an enqueue with
\* wait_count > 0 calls cnd_signal on the condition variable of the head of
\* the waiter list, whether or not the item list was empty before, and wakes
\* no consumer blocked on another condition variable.
C11_EnqueueWakeupRule ==
  [][\A t \in Threads :
       (pc[t] = "enq_count" /\ pc'[t] = "idle" /\ wait_count > 0) =>
         /\ cvQueue_head # NULL
         /\ Len(sigLog') = Len(sigLog) + 1
         /\ sigLog'[Len(sigLog')].by = "enqueue"
         /\ sigLog'[Len(sigLog')].cv = cvnode[cvQueue_head].cv
         /\ \A u \in Threads :
              (pc[u] = "deq_wait" /\ self_cv[u] # cvnode[cvQueue_head].cv)
                => pc'[u] = "deq_wait"]_vars

\* the positions at which a thread is inside a critical section
InCriticalSection == {"enq_count", "deq_fast", "deq_reg", "deq_pop",
                      "try_pop", "hung"}

\* C12: mutex discipline.  A thread inside a critical section of enqueue,
\* dequeue or tryDequeue holds the mutex (so no two threads are inside one at
\* the same time), and a call of size(), waiting() or visited() reads its
\* counter while the calling thread holds the mutex.
C12_MutexDiscipline ==
  /\ [](\A t \in Threads : pc[t] \in InCriticalSection => mtx = t)
  /\ [][(calls' # calls /\ pc' = pc) =>
          (lastRead'.thr # NULL /\ mtx = lastRead'.thr)]_vars

\* the consumers that have queued a handle and not yet unlinked one
Registered == {t \in Threads : pc[t] \in {"deq_wait", "deq_woken"}}

\* C13: waiter-list invariant.  Whenever no thread holds the mutex,
\* wait_count is the number of handles in the waiter list and the number of
\* consumers that have registered and not yet removed a handle; and where
\* enqueue (line 130) or dequeue (line 197) is about to signal
\* cvQueue.head->cv, cvQueue.head is not NULL.
C13_WaiterListInvariant ==
  /\ (mtx = NULL /\ qstate = "live") =>
       /\ wait_count = Len(WaiterList)
       /\ wait_count = Cardinality(Registered)
  /\ \A t \in Threads :
       /\ (pc[t] = "enq_count"
           /\ EnqueueSignals(wait_count, queue_was_empty[t]))
            => cvQueue_head # NULL
       /\ (pc[t] = "deq_pop" /\ Dec(wait_count) > 0)
            => (cvQueue_head # NULL /\ cvnode[cvQueue_head].next # NULL)

\* one consumer has removed a handle while another is still registered
C13_Witness ==
  /\ mtx = NULL /\ qstate = "live"
  /\ wait_count = 1
  /\ \E i \in DOMAIN regs : regs[i].got # Pending

\* C14: item-list shape.  Whenever no thread holds the mutex, head is NULL
\* exactly when tail is NULL, exactly when item_count is 0; and when the list
\* is not empty tail is the last node reachable from head.
C14_ItemListShape ==
  (mtx = NULL /\ qstate = "live") =>
    /\ (head = NULL) <=> (tail = NULL)
    /\ (head = NULL) <=> (item_count = 0)
    /\ head # NULL => tail = ItemList[Len(ItemList)]

\* C15: dequeue waits only on an empty queue.  A dequeue call that is
\* queueing a waiter handle found item_count = 0 when it took the mutex, and
\* a dequeue call that found item_count > 0 is on the path that pops the head
\* item without a handle.
C15_WaitsOnlyOnEmpty ==
  \A t \in Threads :
    /\ pc[t] = "deq_reg" => item_count = 0
    /\ pc[t] = "deq_fast" => item_count > 0

\* C16: a consumer removes its own handle.  The handle that a resumed
\* dequeue call unlinks from the waiter list (lines 190-193) holds the
\* condition variable this call created and waited on.
C16_RemovesOwnHandle ==
  [][\A t \in Threads :
       (pc[t] = "deq_pop" /\ pc'[t] # pc[t]) =>
         (/\ cvQueue_head # NULL
          /\ cvnode[cvQueue_head].cv = self_cv[t])]_vars

\* C17: no wait-node leak.  When no thread is inside dequeue and the waiter
\* list is empty, no CvNode and no cnd_t allocated by dequeue is still
\* allocated.
C17_NoWaitNodeLeak ==
  (/\ qstate = "live"
   /\ \A t \in Threads : pc[t] \in {"idle", "enq_lock", "enq_count",
                                    "try_lock", "try_pop"}
   /\ WaiterList = <<>>) =>
    /\ \A n \in CvNodeIds : ~cvnode[n].live
    /\ \A c \in CndIds : cnd[c] = "free"

\* C18: no interception of the waking item.  While a consumer that an
\* enqueue's signal woke has not yet removed an item, the item of that
\* enqueue has not been removed by another thread and, when the mutex is
\* free, item_count > 0; and the item the consumer then takes is that item.
C18_NoInterception ==
  \A t \in Threads : \A k \in DOMAIN sigLog :
    (sigLog[k].by = "enqueue" /\ sigLog[k].woke = t
     /\ sigLog[k].cv = self_cv[t]) =>
      /\ pc[t] = "deq_woken" =>
           /\ sigLog[k].item \notin Range(removed)
           /\ mtx = NULL => item_count > 0
      /\ pc[t] = "deq_pop" => local_item[t] = sigLog[k].item

\* C19: no lost wakeup.  Whenever no thread holds the mutex, items are
\* queued and consumers are registered, the consumer that waits on the
\* condition variable of the head handle has been signalled.
C19_NoLostWakeup ==
  (mtx = NULL /\ Running /\ item_count > 0 /\ wait_count > 0) =>
    /\ cvQueue_head # NULL
    /\ \E u \in Threads :
         /\ self_cv[u] = cvnode[cvQueue_head].cv
         /\ pc[u] = "deq_woken"

\* C20: no barging by blocking consumers.  A dequeue call on the fast path
\* took the mutex with the waiter list empty; and a consumer that registered
\* as a waiter returns an item only after every consumer that registered
\* before it has returned.
C20_NoBarging ==
  /\ \A t \in Threads : pc[t] = "deq_fast" => isCvQueueEmpty
  /\ \A i, j \in DOMAIN regs :
       (i < j /\ regs[j].got \in Items) => regs[i].got # Pending

====
